---- MODULE Spec2Model ----
(***************************************************************************)
(* Estimation engines of streamlit_estimador.py: EstimadorDiecisiete       *)
(* (Variant A, statistics computed from the historical dataset) and        *)
(* EstimadorDiez (Variant B, statistics and keyword table read from a JSON *)
(* configuration), their loaders and the calls to predecir.                *)
(*                                                                         *)
(* Numbers.  The code computes in IEEE doubles.  A finite number is        *)
(* modelled as an exact rational <<n, d>> in lowest terms with d > 0; the  *)
(* doubles that are not finite are the pairs <<0, 0>> (NaN), <<1, 0>> and  *)
(* <<-1, 0>> (the infinities).  round() is Python's: half-way cases go to  *)
(* the even integer.  The datasets and configurations below are such that  *)
(* the doubles of the code and the rationals here round to the same        *)
(* quarter of an hour in every call.  Strings are kept as in the source    *)
(* except that accents are dropped and the emoji that open a message are   *)
(* written "(!)" (warning sign), "(!!)" (siren) and "(!!!)" (two sirens).  *)
(***************************************************************************)
EXTENDS Integers, Sequences, FiniteSets, TLC

VARIABLES
    pc,                    \* position of the script: "cargar17", "cargar10", "listo", "resultado", "detenido"
    archivo_csv,           \* historico_bugs.csv: "ausente" or the rows of the dataset
    archivo_json,          \* modelo_diez_config.json: "ausente", "ilegible" or the parsed object
    estimador_diecisiete,  \* the cached EstimadorDiecisiete, None before/without construction
    estimador_diez,        \* the cached EstimadorDiez, None before/without construction
    llamada,               \* arguments of the call to predecir in progress / just returned
    locales,               \* local variables of that call at its return (base, mae, multiplicador, ...)
    pred,                  \* what the call returned: the prediction record, or the exception raised
    anterior               \* an earlier call and its result, kept by an observer for comparison

vars == <<pc, archivo_csv, archivo_json, estimador_diecisiete, estimador_diez,
          llamada, locales, pred, anterior>>

(***************************************************************************)
(* Bounds of the model.                                                    *)
(***************************************************************************)
MaxSummary == 4        \* longest summary, in words
MaxDescripcion == 1    \* longest description, in words (filler apart)
MaxSummaryPares == 2   \* longest summary in the two-call specification

(***************************************************************************)
(* Exact rational arithmetic standing for the float arithmetic.            *)
(***************************************************************************)
Abs(x) == IF x < 0 THEN -x ELSE x

RECURSIVE MCD(_, _)
MCD(a, b) == IF b = 0 THEN a ELSE MCD(b, a % b)

Norm(n, d) == LET g == MCD(Abs(n), d) IN <<n \div g, d \div g>>

Ent(k) == <<k, 1>>

RSum(a, b) ==
    LET g == MCD(a[2], b[2])
    IN  Norm(a[1] * (b[2] \div g) + b[1] * (a[2] \div g), a[2] * (b[2] \div g))

RNeg(a) == <<-a[1], a[2]>>

RResta(a, b) == RSum(a, RNeg(b))

RMul(a, b) ==
    LET g1 == MCD(Abs(a[1]), b[2])
        g2 == MCD(Abs(b[1]), a[2])
    IN  Norm((a[1] \div g1) * (b[1] \div g2), (a[2] \div g2) * (b[2] \div g1))

RMenor(a, b) == RResta(a, b)[1] < 0

RMenorIgual(a, b) == RResta(a, b)[1] <= 0

RAbs(a) == <<Abs(a[1]), a[2]>>

Medio == <<1, 2>>

\* Round as int(x) would have it on the amounts of time of the model: the integer below
Truncar(x) == x[1] \div x[2]

\* Python's round(x) with no digits: nearest integer, ties to the even one.
Round(x) ==
    LET q == x[1] \div x[2]
        r == x[1] % x[2]
    IN  IF 2 * r < x[2] THEN q
        ELSE IF 2 * r > x[2] THEN q + 1
        ELSE IF q % 2 = 0 THEN q ELSE q + 1

\* round(x * 4) / 4
Cuartos(x) == Norm(Round(RMul(x, Ent(4))), 4)

EsMultiploDeCuarto(x) == 4 % x[2] = 0

(***************************************************************************)
(* Text.  A summary is a sequence of words; a description is a sequence of *)
(* words followed by `relleno` filler tokens "x" (each preceded by one     *)
(* space).  The filler matches none of the patterns and none of the        *)
(* configured keywords, so only its token count is carried.  Letras gives  *)
(* the characters of each word of the vocabulary, of each pattern literal  *)
(* and of each configured keyword.                                         *)
(***************************************************************************)
Letras(w) ==
    CASE w = "IRPF" -> <<"I", "R", "P", "F">>
      [] w = "ajuste" -> <<"a", "j", "u", "s", "t", "e">>
      [] w = "planilla" -> <<"p", "l", "a", "n", "i", "l", "l", "a">>
      [] w = "masiva" -> <<"m", "a", "s", "i", "v", "a">>
      [] w = "aguinaldo" -> <<"a", "g", "u", "i", "n", "a", "l", "d", "o">>
      [] w = "licencias" -> <<"l", "i", "c", "e", "n", "c", "i", "a", "s">>
      [] w = "IRPFs" -> <<"I", "R", "P", "F", "s">>
      [] w = "irpf" -> <<"i", "r", "p", "f">>
      [] w = "correc" -> <<"c", "o", "r", "r", "e", "c">>
      [] w = "licenc" -> <<"l", "i", "c", "e", "n", "c">>
      [] w = "permiso" -> <<"p", "e", "r", "m", "i", "s", "o">>
      [] w = "vacaci" -> <<"v", "a", "c", "a", "c", "i">>
      [] w = "masiv" -> <<"m", "a", "s", "i", "v">>
      [] w = "ajuste_irpf" -> <<"a", "j", "u", "s", "t", "e", "_", "i", "r", "p", "f">>

Minusculas == <<"a", "b", "c", "d", "e", "f", "g", "h", "i", "j", "k", "l", "m",
                "n", "o", "p", "q", "r", "s", "t", "u", "v", "w", "x", "y", "z">>

Mayusculas == <<"A", "B", "C", "D", "E", "F", "G", "H", "I", "J", "K", "L", "M",
                "N", "O", "P", "Q", "R", "S", "T", "U", "V", "W", "X", "Y", "Z">>

EsMayuscula(c) == \E i \in 1..Len(Mayusculas) : Mayusculas[i] = c

EsMinuscula(c) == \E i \in 1..Len(Minusculas) : Minusculas[i] = c

\* str.lower() and str.upper() on one character
LowerChar(c) ==
    IF EsMayuscula(c)
    THEN Minusculas[CHOOSE i \in 1..Len(Mayusculas) : Mayusculas[i] = c]
    ELSE c

UpperChar(c) ==
    IF EsMinuscula(c)
    THEN Mayusculas[CHOOSE i \in 1..Len(Minusculas) : Minusculas[i] = c]
    ELSE c

RECURSIVE Lower(_)
Lower(t) == IF t = <<>> THEN <<>> ELSE <<LowerChar(t[1])>> \o Lower(Tail(t))

\* the words of a sequence joined by single spaces
RECURSIVE Unir(_)
Unir(palabras) ==
    IF palabras = <<>> THEN <<>>
    ELSE IF Len(palabras) = 1 THEN Letras(palabras[1])
    ELSE Letras(palabras[1]) \o <<" ">> \o Unir(Tail(palabras))

\* f"{summary} {description}", without the filler tokens of the description
TextoCompleto(summary, description) ==
    Unir(summary) \o <<" ">> \o Unir(description.palabras)

EsEspacio(c) == c \in {" ", "\n", "\t"}

\* len(texto.split()) on the characters, plus the filler tokens
ContarTokens(t) ==
    Cardinality({i \in 1..Len(t) :
        /\ ~EsEspacio(t[i])
        /\ (i = 1 \/ EsEspacio(t[i - 1]))})

TextoLen(summary, description) ==
    ContarTokens(TextoCompleto(summary, description)) + description.relleno

(***************************************************************************)
(* Regular-expression search (re.search) for the patterns of               *)
(* _extraer_keywords: literals, \b, alternation and ".*" (any run of       *)
(* characters other than newline).                                         *)
(***************************************************************************)
\* \w
EsDePalabra(c) == EsMinuscula(c) \/ EsMayuscula(c) \/ c = "_"

\* the literal p occurs in t starting at position i
EnPos(t, p, i) ==
    /\ i >= 1
    /\ i + Len(p) - 1 <= Len(t)
    /\ t[i] = p[1]
    /\ \A k \in 2..Len(p) : t[i + k - 1] = p[k]

\* \b holds between positions i - 1 and i of t
Limite(t, i) ==
    LET antes == i > 1 /\ EsDePalabra(t[i - 1])
        despues == i <= Len(t) /\ EsDePalabra(t[i])
    IN  antes # despues

\* \bp\b
BuscaPalabra(t, p) ==
    \E i \in 1..Len(t) : EnPos(t, p, i) /\ Limite(t, i) /\ Limite(t, i + Len(p))

\* \bp
BuscaInicio(t, p) ==
    \E i \in 1..Len(t) : EnPos(t, p, i) /\ Limite(t, i)

\* p.*q
BuscaLuego(t, p, q) ==
    \E i \in 1..Len(t) :
        /\ EnPos(t, p, i)
        /\ \E j \in (i + Len(p))..Len(t) :
              /\ EnPos(t, q, j)
              /\ \A k \in (i + Len(p))..(j - 1) : t[k] # "\n"

\* p in t (plain substring, as Variant B matches its keywords)
Contiene(t, p) ==
    IF Len(p) = 0 THEN TRUE ELSE \E i \in 1..Len(t) : EnPos(t, p, i)

(***************************************************************************)
(* Python values shared by both engines.                                   *)
(***************************************************************************)
\* None, where the code holds either None or a dict / an object
NoneV == [none |-> TRUE]

EsNone(v) == "none" \in DOMAIN v

\* max(0.5, x): Python's max keeps its first argument unless the second is greater
Max05(x) == IF RMenor(Medio, x) THEN x ELSE Medio

(***************************************************************************)
(* pandas / numpy on the worklog_hours column.                             *)
(***************************************************************************)
Fila(c, n, d) == [cliente |-> c, worklog_hours |-> <<n, d>>]

\* df['worklog_hours']
Columna(df) == [i \in 1..Len(df) |-> df[i].worklog_hours]

\* df[df['cliente'] == cliente]['worklog_hours']
HorasDe(df, cliente) == Columna(SelectSeq(df, LAMBDA f : f.cliente = cliente))

\* df['cliente'].unique()
Unique(df) == {df[i].cliente : i \in 1..Len(df)}

RECURSIVE Insertar(_, _)
Insertar(s, x) ==
    IF s = <<>> THEN <<x>>
    ELSE IF RMenorIgual(x, s[1]) THEN <<x>> \o s
    ELSE <<s[1]>> \o Insertar(Tail(s), x)

RECURSIVE Ordenar(_)
Ordenar(s) == IF s = <<>> THEN <<>> ELSE Insertar(Ordenar(Tail(s)), s[1])

\* Series.median()
Median(data) ==
    LET s == Ordenar(data)
        n == Len(s)
    IN  IF n % 2 = 1 THEN s[(n + 1) \div 2]
        ELSE RMul(RSum(s[n \div 2], s[n \div 2 + 1]), Medio)

RECURSIVE Suma(_)
Suma(s) == IF s = <<>> THEN Ent(0) ELSE RSum(s[1], Suma(Tail(s)))

\* np.mean
Mean(data) == RMul(Suma(data), <<1, Len(data)>>)

\* np.mean(np.abs(data - median))
MeanAbsDev(data, median) ==
    Mean([i \in 1..Len(data) |-> RAbs(RResta(data[i], median))])

\* Series.quantile(q) with q = qn / qd, linear interpolation between order statistics
Quantile(data, qn, qd) ==
    LET s == Ordenar(data)
        pos == (Len(s) - 1) * qn
        lo == pos \div qd
        frac == <<pos % qd, qd>>
    IN  IF pos % qd = 0 THEN s[lo + 1]
        ELSE RSum(s[lo + 1], RMul(Norm(frac[1], frac[2]), RResta(s[lo + 2], s[lo + 1])))

(***************************************************************************)
(* class EstimadorDiecisiete                                               *)
(***************************************************************************)
CalcularStatsCliente(df) ==
    [cliente \in Unique(df) |->
        LET data == HorasDe(df, cliente)
        IN  IF Len(data) >= 3
            THEN LET median == Median(data)
                 IN  [median |-> median,
                      mae |-> MeanAbsDev(data, median),
                      count |-> Len(data),
                      p25 |-> Quantile(data, 1, 4),
                      p75 |-> Quantile(data, 3, 4)]
            ELSE NoneV]

CalcularMaeGlobal(df) == MeanAbsDev(Columna(df), Median(Columna(df)))

NuevoEstimadorDiecisiete(df) ==
    [cls |-> "EstimadorDiecisiete",
     df_historico |-> df,
     stats_cliente |-> CalcularStatsCliente(df),
     global_median |-> Median(Columna(df)),
     global_mae |-> CalcularMaeGlobal(df),
     outlier_threshold |-> Ent(20)]

\* ExtraerKeywords with an adjustment signal that takes the two words in either order
ExtraerKeywordsSinOrden(texto) ==
    LET texto_lower == Lower(texto)
    IN  [is_irpf |-> IF BuscaPalabra(texto_lower, Letras("irpf")) THEN 1 ELSE 0,
         is_ajuste_irpf |->
            IF /\ Contiene(texto_lower, Letras("irpf"))
               /\ \/ Contiene(texto_lower, Letras("ajuste"))
                  \/ Contiene(texto_lower, Letras("correc"))
            THEN 1 ELSE 0,
         is_licencias |->
            IF \/ BuscaInicio(texto_lower, Letras("licenc"))
               \/ BuscaInicio(texto_lower, Letras("permiso"))
               \/ BuscaInicio(texto_lower, Letras("vacaci"))
            THEN 1 ELSE 0,
         is_planillas |->
            IF \/ BuscaInicio(texto_lower, Letras("planilla"))
               \/ BuscaInicio(texto_lower, Letras("masiv"))
            THEN 1 ELSE 0,
         is_aguinaldo |-> IF BuscaPalabra(texto_lower, Letras("aguinaldo")) THEN 1 ELSE 0]

ExtraerKeywords(texto) ==
    LET texto_lower == Lower(texto)
    IN  [is_irpf |-> IF BuscaPalabra(texto_lower, Letras("irpf")) THEN 1 ELSE 0,
         is_ajuste_irpf |->
            IF \/ BuscaLuego(texto_lower, Letras("ajuste"), Letras("irpf"))
               \/ BuscaLuego(texto_lower, Letras("correc"), Letras("irpf"))
            THEN 1 ELSE 0,
         is_licencias |->
            IF \/ BuscaInicio(texto_lower, Letras("licenc"))
               \/ BuscaInicio(texto_lower, Letras("permiso"))
               \/ BuscaInicio(texto_lower, Letras("vacaci"))
            THEN 1 ELSE 0,
         is_planillas |->
            IF \/ BuscaInicio(texto_lower, Letras("planilla"))
               \/ BuscaInicio(texto_lower, Letras("masiv"))
            THEN 1 ELSE 0,
         is_aguinaldo |-> IF BuscaPalabra(texto_lower, Letras("aguinaldo")) THEN 1 ELSE 0]

\* one "if cond: multiplicador *= factor; factores.append(mensaje)" of _aplicar_reglas
Regla(cond, factor, mensaje) == [cond |-> cond, factor |-> factor, mensaje |-> mensaje]

\* ReglasFijas with the second length rule written as an if of its own
ReglasFijasSinElif(cliente, keywords, texto_len) ==
    << Regla(cliente = "Intendencia de Rivera", <<23, 20>>, "Cliente Rivera (+15%)"),
       Regla(keywords.is_irpf = 1, <<5, 4>>, "IRPF (+25%)"),
       Regla(keywords.is_ajuste_irpf = 1, <<27, 20>>, "(!) Ajuste IRPF (+35%)"),
       Regla(keywords.is_licencias = 1, <<23, 20>>, "Licencias (+15%)"),
       Regla(keywords.is_planillas = 1, <<13, 10>>, "Planillas/Masivo (+30%)"),
       Regla(keywords.is_aguinaldo = 1, <<6, 5>>, "Aguinaldo (+20%)"),
       Regla(texto_len > 150, <<6, 5>>, "Descripcion muy extensa (+20%)"),
       Regla(texto_len > 80, <<11, 10>>, "Descripcion extensa (+10%)"),
       Regla(keywords.is_irpf = 1 /\ keywords.is_planillas = 1,
             <<5, 4>>, "(!!) IRPF + Masivo (+25% adicional)"),
       Regla(keywords.is_ajuste_irpf = 1 /\ keywords.is_planillas = 1,
             <<7, 5>>, "(!!!) Ajuste IRPF + Masivo (+40% adicional)") >>

\* ReglasFijas with the second combo written as an elif of the first
ReglasFijasElif(cliente, keywords, texto_len) ==
    << Regla(cliente = "Intendencia de Rivera", <<23, 20>>, "Cliente Rivera (+15%)"),
       Regla(keywords.is_irpf = 1, <<5, 4>>, "IRPF (+25%)"),
       Regla(keywords.is_ajuste_irpf = 1, <<27, 20>>, "(!) Ajuste IRPF (+35%)"),
       Regla(keywords.is_licencias = 1, <<23, 20>>, "Licencias (+15%)"),
       Regla(keywords.is_planillas = 1, <<13, 10>>, "Planillas/Masivo (+30%)"),
       Regla(keywords.is_aguinaldo = 1, <<6, 5>>, "Aguinaldo (+20%)"),
       Regla(texto_len > 150, <<6, 5>>, "Descripcion muy extensa (+20%)"),
       Regla(~(texto_len > 150) /\ texto_len > 80, <<11, 10>>, "Descripcion extensa (+10%)"),
       Regla(keywords.is_irpf = 1 /\ keywords.is_planillas = 1,
             <<5, 4>>, "(!!) IRPF + Masivo (+25% adicional)"),
       Regla(/\ ~(keywords.is_irpf = 1 /\ keywords.is_planillas = 1)
             /\ keywords.is_ajuste_irpf = 1 /\ keywords.is_planillas = 1,
             <<7, 5>>, "(!!!) Ajuste IRPF + Masivo (+40% adicional)") >>

\* the if statements of _aplicar_reglas, in their order; the elif is the second length rule
ReglasFijas(cliente, keywords, texto_len) ==
    << Regla(cliente = "Intendencia de Rivera", <<23, 20>>, "Cliente Rivera (+15%)"),
       Regla(keywords.is_irpf = 1, <<5, 4>>, "IRPF (+25%)"),
       Regla(keywords.is_ajuste_irpf = 1, <<27, 20>>, "(!) Ajuste IRPF (+35%)"),
       Regla(keywords.is_licencias = 1, <<23, 20>>, "Licencias (+15%)"),
       Regla(keywords.is_planillas = 1, <<13, 10>>, "Planillas/Masivo (+30%)"),
       Regla(keywords.is_aguinaldo = 1, <<6, 5>>, "Aguinaldo (+20%)"),
       Regla(texto_len > 150, <<6, 5>>, "Descripcion muy extensa (+20%)"),
       Regla(~(texto_len > 150) /\ texto_len > 80, <<11, 10>>, "Descripcion extensa (+10%)"),
       Regla(keywords.is_irpf = 1 /\ keywords.is_planillas = 1,
             <<5, 4>>, "(!!) IRPF + Masivo (+25% adicional)"),
       Regla(keywords.is_ajuste_irpf = 1 /\ keywords.is_planillas = 1,
             <<7, 5>>, "(!!!) Ajuste IRPF + Masivo (+40% adicional)") >>

\* multiplicador after the rules of the sequence, starting from 1.0
RECURSIVE Multiplicar(_)
Multiplicar(reglas) ==
    IF reglas = <<>> THEN Ent(1)
    ELSE RMul(Multiplicar(SubSeq(reglas, 1, Len(reglas) - 1)), reglas[Len(reglas)].factor)

\* factores after the rules of the sequence, starting from []
RECURSIVE Mensajes(_)
Mensajes(reglas) ==
    IF reglas = <<>> THEN <<>>
    ELSE Append(Mensajes(SubSeq(reglas, 1, Len(reglas) - 1)), reglas[Len(reglas)].mensaje)

AplicarReglas(base, cliente, keywords, texto_len) ==
    LET disparadas == SelectSeq(ReglasFijas(cliente, keywords, texto_len), LAMBDA x : x.cond)
        multiplicador == Multiplicar(disparadas)
    IN  [pred_central |-> RMul(base, multiplicador),
         factores |-> Mensajes(disparadas),
         multiplicador |-> multiplicador]

\* self.stats_cliente.get(cliente)
StatsGet(tabla, cliente) ==
    IF cliente \in DOMAIN tabla THEN tabla[cliente] ELSE NoneV

\* ElegirBase with > where the code has >=
ElegirBaseEstricto(self, cliente_stats) ==
    IF ~EsNone(cliente_stats) /\ cliente_stats.count > 5
    THEN [base |-> cliente_stats.median,
          mae |-> cliente_stats.mae,
          confianza |-> "Alta",
          metodo |-> <<"Mediana cliente", cliente_stats.count>>]
    ELSE IF ~EsNone(cliente_stats) /\ cliente_stats.count > 3
    THEN [base |-> RMul(RSum(cliente_stats.median, self.global_median), Medio),
          mae |-> RMul(RSum(cliente_stats.mae, self.global_mae), Medio),
          confianza |-> "Media",
          metodo |-> <<"Hibrido", cliente_stats.count>>]
    ELSE [base |-> self.global_median,
          mae |-> self.global_mae,
          confianza |-> "Baja",
          metodo |-> <<"Mediana global (sin historial)", 0>>]

\* the if / elif / else ladder choosing base, mae, confianza and metodo
ElegirBase(self, cliente_stats) ==
    IF ~EsNone(cliente_stats) /\ cliente_stats.count >= 5
    THEN [base |-> cliente_stats.median,
          mae |-> cliente_stats.mae,
          confianza |-> "Alta",
          metodo |-> <<"Mediana cliente", cliente_stats.count>>]
    ELSE IF ~EsNone(cliente_stats) /\ cliente_stats.count >= 3
    THEN [base |-> RMul(RSum(cliente_stats.median, self.global_median), Medio),
          mae |-> RMul(RSum(cliente_stats.mae, self.global_mae), Medio),
          confianza |-> "Media",
          metodo |-> <<"Hibrido", cliente_stats.count>>]
    ELSE [base |-> self.global_median,
          mae |-> self.global_mae,
          confianza |-> "Baja",
          metodo |-> <<"Mediana global (sin historial)", 0>>]

\* Avisos17 with the no-history flag put at the head of the list
Avisos17AlPrincipio(self, factores, pred_central, confianza) ==
    LET f1 == IF RMenor(Ent(15), pred_central)
              THEN Append(factores, "(!!) Estimacion >15h - considerar spike tecnico")
              ELSE factores
        f2 == IF confianza = "Baja"
              THEN <<"(!) Cliente sin historial - rango amplio">> \o f1
              ELSE f1
        f3 == IF RMenorIgual(RMul(self.outlier_threshold, <<4, 5>>), pred_central)
              THEN Append(f2, "(!) Posible outlier - revisar complejidad")
              ELSE f2
    IN  f3

\* the advisory flags appended after rounding
Avisos17(self, factores, pred_central, confianza) ==
    LET f1 == IF RMenor(Ent(15), pred_central)
              THEN Append(factores, "(!!) Estimacion >15h - considerar spike tecnico")
              ELSE factores
        f2 == IF confianza = "Baja"
              THEN Append(f1, "(!) Cliente sin historial - rango amplio")
              ELSE f1
        f3 == IF RMenorIgual(RMul(self.outlier_threshold, <<4, 5>>), pred_central)
              THEN Append(f2, "(!) Posible outlier - revisar complejidad")
              ELSE f2
    IN  f3

\* Predecir17 deciding the flags on pred_central before it is rounded
Predecir17AvisosAntes(self, cliente, summary, description) ==
    LET cliente_stats == StatsGet(self.stats_cliente, cliente)
        b == ElegirBase(self, cliente_stats)
        texto_completo == TextoCompleto(summary, description)
        keywords == ExtraerKeywords(texto_completo)
        texto_len == TextoLen(summary, description)
        r == AplicarReglas(b.base, cliente, keywords, texto_len)
        pred_min == Max05(RResta(r.pred_central, b.mae))
        pred_max == RSum(r.pred_central, b.mae)
        central == Cuartos(r.pred_central)
    IN  [ret |-> [estado |-> "ok",
                  horas_centrales |-> central,
                  intervalo_min |-> Cuartos(pred_min),
                  intervalo_max |-> Cuartos(pred_max),
                  confianza |-> b.confianza,
                  factores |-> Avisos17(self, r.factores, r.pred_central, b.confianza),
                  metodo |-> b.metodo,
                  casos_historicos |-> IF EsNone(cliente_stats) THEN 0 ELSE cliente_stats.count,
                  base_sin_ajustar |-> Cuartos(b.base)],
         loc |-> [base |-> b.base,
                  mae |-> b.mae,
                  keywords |-> keywords,
                  texto_len |-> texto_len,
                  multiplicador |-> r.multiplicador,
                  reglas |-> r.factores,
                  pred_central |-> r.pred_central,
                  pred_min |-> pred_min,
                  pred_max |-> pred_max]]

\* EstimadorDiecisiete.predecir: the returned dict (ret) and the locals at return (loc)
Predecir17(self, cliente, summary, description) ==
    LET cliente_stats == StatsGet(self.stats_cliente, cliente)
        b == ElegirBase(self, cliente_stats)
        texto_completo == TextoCompleto(summary, description)
        keywords == ExtraerKeywords(texto_completo)
        texto_len == TextoLen(summary, description)
        r == AplicarReglas(b.base, cliente, keywords, texto_len)
        pred_min == Max05(RResta(r.pred_central, b.mae))
        pred_max == RSum(r.pred_central, b.mae)
        central == Cuartos(r.pred_central)
    IN  [ret |-> [estado |-> "ok",
                  horas_centrales |-> central,
                  intervalo_min |-> Cuartos(pred_min),
                  intervalo_max |-> Cuartos(pred_max),
                  confianza |-> b.confianza,
                  factores |-> Avisos17(self, r.factores, central, b.confianza),
                  metodo |-> b.metodo,
                  casos_historicos |-> IF EsNone(cliente_stats) THEN 0 ELSE cliente_stats.count,
                  base_sin_ajustar |-> Cuartos(b.base)],
         loc |-> [base |-> b.base,
                  mae |-> b.mae,
                  keywords |-> keywords,
                  texto_len |-> texto_len,
                  multiplicador |-> r.multiplicador,
                  reglas |-> r.factores,
                  pred_central |-> r.pred_central,
                  pred_min |-> pred_min,
                  pred_max |-> pred_max]]

(***************************************************************************)
(* JSON values and float() for Variant B.  A double that is not finite is  *)
(* a pair with denominator 0: NaN, Inf, NegInf.                            *)
(***************************************************************************)
NaN == <<0, 0>>

Inf == <<1, 0>>

NegInf == <<-1, 0>>

EsFinito(x) == x[2] # 0

JNum(n, d) == [tipo |-> "number", num |-> <<n, d>>, str |-> ""]

JStr(s) == [tipo |-> "string", num |-> <<0, 1>>, str |-> s]

JNull == [tipo |-> "null", num |-> <<0, 1>>, str |-> ""]

Ok(v) == [exc |-> "", val |-> v]

Raise(e) == [exc |-> e, val |-> NaN]

\* float(v): a number is kept, a string is parsed, None is a TypeError
Float(v) ==
    IF v.tipo = "number" THEN Ok(v.num)
    ELSE IF v.tipo = "null" THEN Raise("TypeError")
    ELSE IF v.str = "nan" THEN Ok(NaN)
    ELSE IF v.str = "inf" THEN Ok(Inf)
    ELSE IF v.str = "0.5" THEN Ok(Medio)
    ELSE Raise("ValueError")

XNeg(a) == <<-a[1], a[2]>>

XMul(a, b) ==
    IF EsFinito(a) /\ EsFinito(b) THEN RMul(a, b)
    ELSE IF a = NaN \/ b = NaN \/ a[1] = 0 \/ b[1] = 0 THEN NaN
    ELSE IF (a[1] > 0) = (b[1] > 0) THEN Inf ELSE NegInf

XSum(a, b) ==
    IF EsFinito(a) /\ EsFinito(b) THEN RSum(a, b)
    ELSE IF a = NaN \/ b = NaN THEN NaN
    ELSE IF ~EsFinito(a) /\ ~EsFinito(b) THEN (IF a = b THEN a ELSE NaN)
    ELSE IF EsFinito(a) THEN b ELSE a

XResta(a, b) == XSum(a, XNeg(b))

\* max(0.5, x): x replaces 0.5 only when x > 0.5, which NaN never is
XMax05(x) ==
    IF EsFinito(x) THEN Max05(x)
    ELSE IF x = Inf THEN Inf ELSE Medio

\* round(x) raises ValueError on NaN and OverflowError on an infinity
XRound(x) ==
    IF EsFinito(x) THEN Ok(Ent(Round(x)))
    ELSE IF x = NaN THEN Raise("ValueError") ELSE Raise("OverflowError")

\* round(x * 4) / 4
XCuartos(x) ==
    LET r == XRound(XMul(x, Ent(4)))
    IN  IF r.exc = "" THEN Ok(Norm(r.val[1], 4)) ELSE r

\* {}
DictVacio == [k \in {} |-> k]

\* dict.get(k, default)
Get(d, k, default) == IF k \in DOMAIN d THEN d[k] ELSE default

(***************************************************************************)
(* class EstimadorDiez                                                      *)
(***************************************************************************)
\* EstimadorDiez.__init__: the object, or the exception float() raises
NuevoEstimadorDiez(config) ==
    LET global == Get(config, "global", DictVacio)
        mediana == Float(Get(global, "mediana", JNum(0, 1)))
        mad == Float(Get(global, "mad", JNum(0, 1)))
    IN  IF mediana.exc # "" THEN [exc |-> mediana.exc, val |-> NoneV]
        ELSE IF mad.exc # "" THEN [exc |-> mad.exc, val |-> NoneV]
        ELSE [exc |-> "",
              val |-> [cls |-> "EstimadorDiez",
                       config |-> config,
                       global_mediana |-> mediana.val,
                       global_mad |-> mad.val,
                       keywords |-> Get(config, "keywords", <<>>),
                       clientes |-> Get(config, "clientes", DictVacio),
                       n_bugs |-> Get(config, "n_bugs", 0)]]

\* str(keyword).replace("_", " ").title()
Title(keyword) ==
    LET t == [i \in 1..Len(keyword) |-> IF keyword[i] = "_" THEN " " ELSE keyword[i]]
        letra(c) == EsMinuscula(c) \/ EsMayuscula(c)
    IN  [i \in 1..Len(t) |->
            IF i = 1 \/ ~letra(t[i - 1]) THEN UpperChar(t[i]) ELSE LowerChar(t[i])]

\* one entry of factores: f"{nombre} (+{pct}%)", or nombre alone when pct is 0
Etiqueta(nombre, pct) == [nombre |-> nombre, pct |-> pct]

\* multiplicador = 1.0; factores = []
KeywordsIniciales == [exc |-> "", multiplicador |-> Ent(1), factores |-> <<>>, disparadas |-> <<>>]

\* PasoKeyword multiplying by the percentage (factor_val - 1) where the code has factor_val
PasoKeywordPorcentaje(r, keyword, factor, texto_lower) ==
    LET factor_val == Float(factor)
    IN  IF r.exc # "" THEN r
        ELSE IF factor_val.exc # "" THEN r
        ELSE IF ~Contiene(texto_lower, Lower(Letras(keyword))) THEN r
        ELSE LET pct == XRound(XMul(XResta(factor_val.val, Ent(1)), Ent(100)))
             IN  IF pct.exc # "" THEN [r EXCEPT !.exc = pct.exc]
                 ELSE [exc |-> "",
                       multiplicador |-> XMul(r.multiplicador, XResta(factor_val.val, Ent(1))),
                       factores |-> Append(r.factores,
                                           Etiqueta(Title(Letras(keyword)), pct.val[1])),
                       disparadas |-> Append(r.disparadas, keyword)]

\* one turn of the loop over self.keywords.items()
PasoKeyword(r, keyword, factor, texto_lower) ==
    LET factor_val == Float(factor)
    IN  IF r.exc # "" THEN r
        ELSE IF factor_val.exc # "" THEN r
        ELSE IF ~Contiene(texto_lower, Lower(Letras(keyword))) THEN r
        ELSE LET pct == XRound(XMul(XResta(factor_val.val, Ent(1)), Ent(100)))
             IN  IF pct.exc # "" THEN [r EXCEPT !.exc = pct.exc]
                 ELSE [exc |-> "",
                       multiplicador |-> XMul(r.multiplicador, factor_val.val),
                       factores |-> Append(r.factores,
                                           Etiqueta(Title(Letras(keyword)), pct.val[1])),
                       disparadas |-> Append(r.disparadas, keyword)]

RECURSIVE BucleKeywords(_, _, _)
BucleKeywords(r, keywords, texto_lower) ==
    IF keywords = <<>> THEN r
    ELSE BucleKeywords(PasoKeyword(r, keywords[1].keyword, keywords[1].factor, texto_lower),
                       Tail(keywords), texto_lower)

AplicarKeywords(self, texto) == BucleKeywords(KeywordsIniciales, self.keywords, Lower(texto))

\* the if / else choosing base, mae, confianza, casos and metodo
ElegirBase10(self, stats_cliente) ==
    IF DOMAIN stats_cliente # {}
    THEN LET base == IF "med" \in DOMAIN stats_cliente
                     THEN Float(stats_cliente.med) ELSE Ok(self.global_mediana)
             mae == IF "mad" \in DOMAIN stats_cliente
                    THEN Float(stats_cliente.mad) ELSE Ok(self.global_mad)
             casos == Get(stats_cliente, "n", 0)
         IN  [exc |-> IF base.exc # "" THEN base.exc ELSE mae.exc,
              base |-> base.val,
              mae |-> mae.val,
              confianza |-> Get(stats_cliente, "conf", "Media"),
              casos |-> casos,
              metodo |-> <<"Mediana cliente", casos>>]
    ELSE [exc |-> "",
          base |-> self.global_mediana,
          mae |-> self.global_mad,
          confianza |-> "Baja",
          casos |-> 0,
          metodo |-> <<"Mediana global (sin historial)", 0>>]

\* str.lower() on the confidence labels the configurations hold
LowerConf(confianza) ==
    CASE confianza \in {"Alta", "ALTA", "alta"} -> "alta"
      [] confianza \in {"Media", "MEDIA", "media"} -> "media"
      [] confianza \in {"Baja", "BAJA", "baja"} -> "baja"
      [] OTHER -> confianza

\* Avisos10 comparing the label as it is stored, without lower()
Avisos10Exacto(factores, confianza) ==
    IF confianza \in {"Alta", "Media"}
    THEN factores
    ELSE Append(factores, Etiqueta(<<"Cliente sin historial - rango amplio">>, 0))

\* if confianza.lower() not in ("alta", "media"): factores.append(...)
Avisos10(factores, confianza) ==
    IF LowerConf(confianza) \in {"alta", "media"}
    THEN factores
    ELSE Append(factores, Etiqueta(<<"Cliente sin historial - rango amplio">>, 0))

Excepcion(e) == [estado |-> "error", excepcion |-> e]

\* EstimadorDiez.predecir: the returned dict or the exception raised (ret), and the locals (loc)
Predecir10(self, cliente, summary, description) ==
    LET stats_cliente == Get(self.clientes, cliente, DictVacio)
        b == ElegirBase10(self, stats_cliente)
        texto_completo == TextoCompleto(summary, description)
        k == AplicarKeywords(self, texto_completo)
        pred_central == XMul(b.base, k.multiplicador)
        pred_min == XMax05(XResta(pred_central, b.mae))
        pred_max == XSum(pred_central, b.mae)
        central == XCuartos(pred_central)
        minimo == XCuartos(pred_min)
        maximo == XCuartos(pred_max)
        sin_ajustar == XCuartos(b.base)
        loc == [base |-> b.base,
                mae |-> b.mae,
                multiplicador |-> k.multiplicador,
                disparadas |-> k.disparadas,
                pred_central |-> pred_central,
                pred_min |-> pred_min,
                pred_max |-> pred_max]
    IN  IF b.exc # "" THEN [ret |-> Excepcion(b.exc), loc |-> NoneV]
        ELSE IF k.exc # "" THEN [ret |-> Excepcion(k.exc), loc |-> NoneV]
        ELSE IF central.exc # "" THEN [ret |-> Excepcion(central.exc), loc |-> loc]
        ELSE IF minimo.exc # "" THEN [ret |-> Excepcion(minimo.exc), loc |-> loc]
        ELSE IF maximo.exc # "" THEN [ret |-> Excepcion(maximo.exc), loc |-> loc]
        ELSE IF sin_ajustar.exc # "" THEN [ret |-> Excepcion(sin_ajustar.exc), loc |-> loc]
        ELSE [ret |-> [estado |-> "ok",
                       horas_centrales |-> central.val,
                       intervalo_min |-> minimo.val,
                       intervalo_max |-> maximo.val,
                       confianza |-> b.confianza,
                       factores |-> Avisos10(k.factores, b.confianza),
                       metodo |-> b.metodo,
                       casos_historicos |-> b.casos,
                       base_sin_ajustar |-> sin_ajustar.val],
              loc |-> loc]

(***************************************************************************)
(* The files the loaders read, and the arguments predecir is called with.  *)
(***************************************************************************)
Historico1 ==
    << Fila("X", 4, 1), Fila("X", 4, 1), Fila("X", 6, 1), Fila("X", 8, 1), Fila("X", 10, 1),
       Fila("Intendencia de Rivera", 6, 1), Fila("Intendencia de Rivera", 7, 1),
       Fila("Intendencia de Rivera", 10, 1), Fila("Intendencia de Rivera", 11, 1),
       Fila("Intendencia de Rivera", 13, 1), Fila("Intendencia de Rivera", 14, 1),
       Fila("Cuatro", 1, 1), Fila("Cuatro", 2, 1), Fila("Cuatro", 6, 1), Fila("Cuatro", 7, 1),
       Fila("Poco", 1, 1), Fila("Poco", 6, 1),
       Fila("Tres", 3, 1), Fila("Tres", 4, 1), Fila("Tres", 7, 1) >>

\* small amounts of time: a client whose median is a quarter of an hour
Historico2 ==
    << Fila("Chico", 1, 4), Fila("Chico", 1, 4), Fila("Chico", 1, 4), Fila("Chico", 1, 2),
       Fila("Chico", 1, 2),
       Fila("Intendencia de Rivera", 1, 1), Fila("Intendencia de Rivera", 2, 1),
       Fila("Intendencia de Rivera", 4, 1), Fila("Intendencia de Rivera", 5, 1),
       Fila("Uno", 30, 1) >>

CsvAusente == [existe |-> FALSE, filas |-> <<>>]

Csv(filas) == [existe |-> TRUE, filas |-> filas]

KW(keyword, factor) == [keyword |-> keyword, factor |-> factor]

ClientesConfig ==
    [c \in {"Acme", "Beta", "Deuda", "Gama", "Vacio"} |->
        CASE c = "Acme" -> [med |-> JNum(8, 1), mad |-> JNum(3, 1), conf |-> "Alta", n |-> 12]
          [] c = "Deuda" -> [med |-> JNum(-2, 1), mad |-> JNum(1, 1), conf |-> "Baja", n |-> 1]
          [] c = "Beta" -> [med |-> JNum(3, 1), mad |-> JNum(1, 1), conf |-> "Baja", n |-> 2]
          [] c = "Gama" -> [med |-> JNum(1, 4), conf |-> "media"]
          [] c = "Vacio" -> DictVacio]

\* a complete configuration; one keyword lowers the estimate, one leaves it as it is
Config1 ==
    [global |-> [mediana |-> JNum(5, 1), mad |-> JNum(2, 1)],
     keywords |-> << KW("irpf", JNum(5, 4)), KW("masiv", JNum(3, 2)),
                     KW("planilla", JNum(4, 5)), KW("aguinaldo", JNum(1, 1)) >>,
     clientes |-> ClientesConfig,
     n_bugs |-> 40]

\* no "global" section
Config2 ==
    [keywords |-> << KW("irpf", JNum(5, 4)), KW("licenc", JStr("0.5")) >>,
     clientes |-> [c \in {"Acme"} |->
                    [med |-> JNum(8, 1), mad |-> JNum(3, 1), conf |-> "Alta", n |-> 12]],
     n_bugs |-> 12]

\* multipliers that do not parse, or parse to a double that is not finite
Config3 ==
    [global |-> [mediana |-> JNum(5, 1), mad |-> JNum(2, 1)],
     keywords |-> << KW("irpf", JStr("abc")), KW("ajuste_irpf", JNum(11, 10)),
                     KW("planilla", JNum(0, 0)), KW("aguinaldo", JNum(1, 0)),
                     KW("licenc", JNull), KW("masiv", JNum(13, 10)) >>,
     clientes |-> [c \in {"Acme", "Delta"} |->
                    IF c = "Acme"
                    THEN [med |-> JNum(8, 1), mad |-> JNum(3, 1), conf |-> "Sin datos", n |-> 0]
                    ELSE [med |-> JNum(8, 1), mad |-> JStr("abc"), conf |-> "Alta", n |-> 3]],
     n_bugs |-> 3]

\* a "global" section whose median is not a number
Config4 ==
    [global |-> [mediana |-> JStr("abc"), mad |-> JNum(2, 1)],
     keywords |-> << KW("irpf", JNum(5, 4)) >>]

JsonAusente == [existe |-> FALSE, legible |-> FALSE, config |-> DictVacio]

JsonIlegible == [existe |-> TRUE, legible |-> FALSE, config |-> DictVacio]

Json(config) == [existe |-> TRUE, legible |-> TRUE, config |-> config]

ArchivosCsv == {Csv(Historico1), Csv(Historico2), CsvAusente}

ArchivosJson ==
    {Json(Config1), Json(Config2), Json(Config3), Json(Config4), JsonAusente, JsonIlegible}

Range(s) == {s[i] : i \in 1..Len(s)}

\* the sequences of at most n different words of W
RECURSIVE Secuencias(_, _)
Secuencias(W, n) ==
    IF n = 0 THEN {<<>>}
    ELSE LET cortas == Secuencias(W, n - 1)
         IN  cortas \cup UNION {{Append(q, w) : w \in W \ Range(q)} : q \in cortas}

PalabrasSummary == {"IRPF", "ajuste", "planilla", "masiva"}

PalabrasDescripcion == {"aguinaldo", "licencias", "IRPFs"}

Summaries == Secuencias(PalabrasSummary, MaxSummary)

\* filler lengths that put the token count on both sides of 80 and of 150
Rellenos == {0, 78, 148}

Descripciones ==
    {[palabras |-> p, relleno |-> r] : p \in Secuencias(PalabrasDescripcion, MaxDescripcion), r \in Rellenos}

ClienteNuevo == "Nuevo"

(***************************************************************************)
(* The program: the two cached loaders run once, in this order, and stop   *)
(* the script when they fail; after that predecir is called, on either     *)
(* engine, any number of times.  Each call's result lives until the run    *)
(* that made it ends.                                                      *)
(***************************************************************************)
NoLlamada == [producto |-> "ninguno"]

NoPred == [estado |-> "ninguna"]

NoAnterior == [hay |-> FALSE]

InitCon(csvs, jsons) ==
    /\ pc = "cargar17"
    /\ archivo_csv \in csvs
    /\ archivo_json \in jsons
    /\ estimador_diecisiete = NoneV
    /\ estimador_diez = NoneV
    /\ llamada = NoLlamada
    /\ locales = NoneV
    /\ pred = NoPred
    /\ anterior = NoAnterior

\* cargar_estimador(): read the CSV and build the engine, or st.stop()
CargarEstimador ==
    /\ pc = "cargar17"
    /\ IF archivo_csv.existe
       THEN /\ estimador_diecisiete' = NuevoEstimadorDiecisiete(archivo_csv.filas)
            /\ pc' = "cargar10"
       ELSE /\ estimador_diecisiete' = estimador_diecisiete
            /\ pc' = "detenido"
    /\ UNCHANGED <<archivo_csv, archivo_json, estimador_diez, llamada, locales, pred, anterior>>

\* what cargar_estimador_diez() returns: the engine, or None when it ends in st.stop()
CargarDiez(archivo) ==
    IF ~archivo.existe THEN NoneV
    ELSE IF ~archivo.legible THEN NoneV
    ELSE LET e == NuevoEstimadorDiez(archivo.config)
         IN  IF e.exc # "" THEN NoneV ELSE e.val

\* estimador_diez = cargar_estimador_diez()
CargarEstimadorDiez ==
    /\ pc = "cargar10"
    /\ estimador_diez' = CargarDiez(archivo_json)
    /\ pc' = IF EsNone(estimador_diez') THEN "detenido" ELSE "listo"
    /\ UNCHANGED <<archivo_csv, archivo_json, estimador_diecisiete, llamada, locales, pred,
                   anterior>>

\* LlamadaPredecir17 for a predecir that folds its estimate into the global median
LlamadaPredecir17Aprende(self, cliente, summary, description) ==
    LET r == Predecir17(self, cliente, summary, description)
    IN  [self |-> [self EXCEPT !.global_median =
                       RMul(RSum(self.global_median, r.ret.horas_centrales), Medio)],
         ret |-> r.ret,
         loc |-> r.loc]

\* a call estimador.predecir(cliente, summary, description) on Variant A:
\* the engine after the call, what the call returned and its locals
LlamadaPredecir17(self, cliente, summary, description) ==
    LET r == Predecir17(self, cliente, summary, description)
    IN  [self |-> self, ret |-> r.ret, loc |-> r.loc]

\* the same on Variant B
LlamadaPredecir10(self, cliente, summary, description) ==
    LET r == Predecir10(self, cliente, summary, description)
    IN  [self |-> self, ret |-> r.ret, loc |-> r.loc]

Llamar17(S, D) ==
    /\ pc = "listo"
    /\ \E cliente \in (DOMAIN estimador_diecisiete.stats_cliente) \cup {ClienteNuevo} :
       \E summary \in S : \E description \in D :
          \E r \in {LlamadaPredecir17(estimador_diecisiete, cliente, summary, description)} :
              /\ estimador_diecisiete' = r.self
              /\ llamada' = [producto |-> "Payroll Diecisiete", cliente |-> cliente,
                             summary |-> summary, description |-> description]
              /\ pred' = r.ret
              /\ locales' = r.loc
    /\ pc' = "resultado"
    /\ UNCHANGED <<archivo_csv, archivo_json, estimador_diez, anterior>>

Llamar10(S, D) ==
    /\ pc = "listo"
    /\ \E cliente \in (DOMAIN estimador_diez.clientes) \cup {ClienteNuevo} :
       \E summary \in S : \E description \in D :
          \E r \in {LlamadaPredecir10(estimador_diez, cliente, summary, description)} :
              /\ estimador_diez' = r.self
              /\ llamada' = [producto |-> "Payroll Diez", cliente |-> cliente,
                             summary |-> summary, description |-> description]
              /\ pred' = r.ret
              /\ locales' = r.loc
    /\ pc' = "resultado"
    /\ UNCHANGED <<archivo_csv, archivo_json, estimador_diecisiete, anterior>>

\* the run that made the call ends: its result and locals are gone
FinDeLlamada ==
    /\ pc = "resultado"
    /\ pc' = "listo"
    /\ llamada' = NoLlamada
    /\ locales' = NoneV
    /\ pred' = NoPred
    /\ UNCHANGED <<archivo_csv, archivo_json, estimador_diecisiete, estimador_diez>>

(***************************************************************************)
(* Spec: Variant A.  The CSV varies, the configuration is complete.        *)
(***************************************************************************)
Init == InitCon(ArchivosCsv, {Json(Config1)})

Predecir17Llamado == Llamar17(Summaries, Descripciones)

Terminar == FinDeLlamada /\ UNCHANGED anterior

Next ==
    \/ CargarEstimador
    \/ CargarEstimadorDiez
    \/ Predecir17Llamado
    \/ Terminar

Spec == Init /\ [][Next]_vars

(***************************************************************************)
(* SpecDiez: Variant B.  The configuration file varies.                    *)
(***************************************************************************)
InitDiez == InitCon({Csv(Historico1)}, ArchivosJson)

Predecir10Llamado == Llamar10(Summaries, Descripciones)

NextDiez ==
    \/ CargarEstimador
    \/ CargarEstimadorDiez
    \/ Predecir10Llamado
    \/ Terminar

SpecDiez == InitDiez /\ [][NextDiez]_vars

(***************************************************************************)
(* SpecPares: calls on both engines, one after another.  An observer may   *)
(* keep a call and its result when the run that made it ends, to compare   *)
(* them with a later call; the program itself keeps nothing.               *)
(***************************************************************************)
InitPares == InitCon({Csv(Historico2)}, {Json(Config1), Json(Config3)})

SummariesPares == Secuencias(PalabrasSummary, MaxSummaryPares)

DescripcionesPares == {[palabras |-> <<>>, relleno |-> 0]}

Predecir17LlamadoPares == Llamar17(SummariesPares, DescripcionesPares)

Predecir10LlamadoPares == Llamar10(SummariesPares, DescripcionesPares)

TerminarObservado ==
    /\ FinDeLlamada
    /\ anterior' = [hay |-> TRUE, llamada |-> llamada, pred |-> pred, locales |-> locales]

NextPares ==
    \/ CargarEstimador
    \/ CargarEstimadorDiez
    \/ Predecir17LlamadoPares
    \/ Predecir10LlamadoPares
    \/ Terminar
    \/ TerminarObservado

SpecPares == InitPares /\ [][NextPares]_vars

(***************************************************************************)
(* Properties.  A call has returned when pc = "resultado": llamada holds   *)
(* its arguments, pred what it returned and locales its local variables.   *)
(***************************************************************************)
Devuelto17 == pc = "resultado" /\ llamada.producto = "Payroll Diecisiete"

Devuelto10 == pc = "resultado" /\ llamada.producto = "Payroll Diez"

SinDescripcion == [palabras |-> <<>>, relleno |-> 0]

AvisoSpike == "(!!) Estimacion >15h - considerar spike tecnico"

AvisoSinHistorial == "(!) Cliente sin historial - rango amplio"

AvisoOutlier == "(!) Posible outlier - revisar complejidad"

\* the order of the rationale list the specification gives: the rule messages, then the flags
OrdenFijo ==
    << "Cliente Rivera (+15%)", "IRPF (+25%)", "(!) Ajuste IRPF (+35%)", "Licencias (+15%)",
       "Planillas/Masivo (+30%)", "Aguinaldo (+20%)", "Descripcion muy extensa (+20%)",
       "Descripcion extensa (+10%)", "(!!) IRPF + Masivo (+25% adicional)",
       "(!!!) Ajuste IRPF + Masivo (+40% adicional)",
       AvisoSpike, AvisoSinHistorial, AvisoOutlier >>

Avisos == {AvisoSpike, AvisoSinHistorial, AvisoOutlier}

\* the factor a rationale entry announces: 1 + its percentage, and 1 for a flag
FactorAnunciado(mensaje) ==
    CASE mensaje \in {"Cliente Rivera (+15%)", "Licencias (+15%)"} -> <<23, 20>>
      [] mensaje \in {"IRPF (+25%)", "(!!) IRPF + Masivo (+25% adicional)"} -> <<5, 4>>
      [] mensaje = "(!) Ajuste IRPF (+35%)" -> <<27, 20>>
      [] mensaje = "Planillas/Masivo (+30%)" -> <<13, 10>>
      [] mensaje \in {"Aguinaldo (+20%)", "Descripcion muy extensa (+20%)"} -> <<6, 5>>
      [] mensaje = "Descripcion extensa (+10%)" -> <<11, 10>>
      [] mensaje = "(!!!) Ajuste IRPF + Masivo (+40% adicional)" -> <<7, 5>>
      [] OTHER -> <<1, 1>>

RECURSIVE ProductoAnunciado(_)
ProductoAnunciado(mensajes) ==
    IF mensajes = <<>> THEN <<1, 1>>
    ELSE RMul(FactorAnunciado(mensajes[1]), ProductoAnunciado(Tail(mensajes)))

Posicion(mensaje) == CHOOSE i \in 1..Len(OrdenFijo) : OrdenFijo[i] = mensaje

Veces(s, x) == Cardinality({i \in 1..Len(s) : s[i] = x})

\* r is a multiple of a quarter and no other multiple of a quarter is nearer to x
CuartoMasCercano(r, x) ==
    /\ EsMultiploDeCuarto(r)
    /\ RMenorIgual(RAbs(RResta(r, x)), <<1, 8>>)

\* C1 (as claimed): horas_centrales, intervalo_min and intervalo_max of every returned
\* prediction are multiples of 0.25, intervalo_min <= horas_centrales <= intervalo_max,
\* and intervalo_min >= 0.5.
C1_IntervaloOrdenado ==
    (pc = "resultado" /\ pred.estado = "ok") =>
        /\ EsMultiploDeCuarto(pred.horas_centrales)
        /\ EsMultiploDeCuarto(pred.intervalo_min)
        /\ EsMultiploDeCuarto(pred.intervalo_max)
        /\ RMenorIgual(pred.intervalo_min, pred.horas_centrales)
        /\ RMenorIgual(pred.horas_centrales, pred.intervalo_max)
        /\ RMenorIgual(Medio, pred.intervalo_min)

\* C2 (as claimed): once the engines are constructed, every call to predecir returns a
\* prediction record; none raises.
C2_NuncaLanza == pc = "resultado" => pred.estado = "ok"

\* C9 (as claimed): when the configuration file is missing, unreadable or has no "global"
\* section, loading fails and no EstimadorDiez is produced, so predecir cannot be called.
C9_SinGlobalNoCarga ==
    (pc # "cargar17" /\ pc # "cargar10"
     /\ (\/ ~archivo_json.existe
         \/ ~archivo_json.legible
         \/ "global" \notin DOMAIN archivo_json.config)) =>
        /\ EsNone(estimador_diez)
        /\ pc = "detenido"

\* C5: Variant A chooses the tier by the number of records of the client in the dataset:
\* 5 or more give Alta with the client's median and spread; 3 or 4 give Media with the
\* averages of the client's and the global median and spread; fewer than 3, or none,
\* give Baja with the global median and spread.
C5_EscaleraDeConfianza ==
    Devuelto17 =>
        \A data \in {HorasDe(archivo_csv.filas, llamada.cliente)} :
        \A todos \in {Columna(archivo_csv.filas)} :
        \A global \in {Median(todos)} :
            IF Len(data) >= 5
            THEN /\ pred.confianza = "Alta"
                 /\ locales.base = Median(data)
                 /\ locales.mae = MeanAbsDev(data, Median(data))
            ELSE IF Len(data) >= 3
            THEN /\ pred.confianza = "Media"
                 /\ locales.base = RMul(RSum(Median(data), global), Medio)
                 /\ locales.mae = RMul(RSum(MeanAbsDev(data, Median(data)),
                                            MeanAbsDev(todos, global)), Medio)
            ELSE /\ pred.confianza = "Baja"
                 /\ locales.base = global
                 /\ locales.mae = MeanAbsDev(todos, global)

\* C5 witness: a call for a client with exactly 4 records returned Media
C5_CuatroEsMedia ==
    /\ Devuelto17
    /\ Len(HorasDe(archivo_csv.filas, llamada.cliente)) = 4
    /\ pred.confianza = "Media"

\* C6: whenever the tax-adjustment and the mass-run signals are both set, the rationale
\* holds the adjustment, the mass-run and the x1.40 combo entries, once each, and the
\* multiplier is 1.35 x 1.30 x 1.40 times the factors of the other rule entries; the
\* x1.25 combo entry is there as well exactly when the tax-withholding signal is set.
C6_ComboAjusteMasivo ==
    (Devuelto17 /\ locales.keywords.is_ajuste_irpf = 1 /\ locales.keywords.is_planillas = 1) =>
        \A tres \in {{"(!) Ajuste IRPF (+35%)", "Planillas/Masivo (+30%)",
                      "(!!!) Ajuste IRPF + Masivo (+40% adicional)"}} :
            /\ \A m \in tres : Veces(pred.factores, m) = 1
            /\ locales.multiplicador =
                   RMul(RMul(RMul(<<27, 20>>, <<13, 10>>), <<7, 5>>),
                        ProductoAnunciado(SelectSeq(pred.factores, LAMBDA m : m \notin tres)))
            /\ (locales.keywords.is_irpf = 1) =
                   (Veces(pred.factores, "(!!) IRPF + Masivo (+25% adicional)") = 1)

\* C6 witness: "ajuste IRPF masiva" returned with both combo entries
C6_AmbosCombos ==
    /\ Devuelto17
    /\ llamada.summary = <<"ajuste", "IRPF", "masiva">>
    /\ Veces(pred.factores, "(!!!) Ajuste IRPF + Masivo (+40% adicional)") = 1
    /\ Veces(pred.factores, "(!!) IRPF + Masivo (+25% adicional)") = 1

IrpfAjustePlanillaMasiva == <<"IRPF", "ajuste", "planilla", "masiva">>

AjusteIrpfPlanillaMasiva == <<"ajuste", "IRPF", "planilla", "masiva">>

\* a call for a client that is not in the statistics table, with an empty description
LlamadaSinHistorial(summary) ==
    /\ Devuelto17
    /\ llamada.cliente \notin DOMAIN estimador_diecisiete.stats_cliente
    /\ llamada.summary = summary
    /\ llamada.description = SinDescripcion

\* Baja, on the global median, with the no-history advisory in the rationale list
BajaConAviso(multiplicador) ==
    /\ locales.multiplicador = multiplicador
    /\ locales.base = estimador_diecisiete.global_median
    /\ locales.pred_central = RMul(estimador_diecisiete.global_median, multiplicador)
    /\ pred.confianza = "Baja"
    /\ Veces(pred.factores, AvisoSinHistorial) = 1

\* C7 (as claimed): for an unknown client and the summary "IRPF ajuste planilla masiva"
\* the tax-withholding, tax-adjustment and mass-run signals and both combo rules fire:
\* the multiplier on the global baseline is 1.25 x 1.35 x 1.30 x 1.25 x 1.40, the
\* confidence is Baja and the no-history advisory is in the rationale list.
C7_CincoFactores ==
    LlamadaSinHistorial(IrpfAjustePlanillaMasiva) =>
        /\ locales.keywords.is_irpf = 1
        /\ locales.keywords.is_ajuste_irpf = 1
        /\ locales.keywords.is_planillas = 1
        /\ BajaConAviso(RMul(RMul(RMul(RMul(<<5, 4>>, <<27, 20>>), <<13, 10>>), <<5, 4>>),
                             <<7, 5>>))

\* C7 (amended): for an unknown client and the summary "IRPF ajuste planilla masiva"
\* only the tax-withholding and mass-run signals and their combo fire, because the
\* adjustment pattern wants "ajuste" before "irpf": the multiplier is 1.25 x 1.30 x 1.25.
\* With the summary "ajuste IRPF planilla masiva" the adjustment signal and its combo
\* fire too and the multiplier is 1.25 x 1.35 x 1.30 x 1.25 x 1.40.  In both cases the
\* baseline is the global median, the confidence is Baja and the no-history advisory is
\* in the rationale list.
C7_AjusteAntesDeIrpf ==
    /\ LlamadaSinHistorial(IrpfAjustePlanillaMasiva) =>
          /\ locales.keywords = [is_irpf |-> 1, is_ajuste_irpf |-> 0, is_licencias |-> 0,
                                 is_planillas |-> 1, is_aguinaldo |-> 0]
          /\ BajaConAviso(RMul(RMul(<<5, 4>>, <<13, 10>>), <<5, 4>>))
    /\ LlamadaSinHistorial(AjusteIrpfPlanillaMasiva) =>
          /\ locales.keywords = [is_irpf |-> 1, is_ajuste_irpf |-> 1, is_licencias |-> 0,
                                 is_planillas |-> 1, is_aguinaldo |-> 0]
          /\ BajaConAviso(RMul(RMul(RMul(RMul(<<5, 4>>, <<27, 20>>), <<13, 10>>), <<5, 4>>),
                               <<7, 5>>))

\* C7 witness: the call of the example returned with three rule entries and the advisory
C7_EjemploDevuelto ==
    /\ LlamadaSinHistorial(IrpfAjustePlanillaMasiva)
    /\ pred.factores = << "IRPF (+25%)", "Planillas/Masivo (+30%)",
                          "(!!) IRPF + Masivo (+25% adicional)", AvisoSinHistorial >>

CuatroCuatroSeisOchoDiez == <<Ent(4), Ent(4), Ent(6), Ent(8), Ent(10)>>

\* a call for a client with the records [4, 4, 6, 8, 10], not the special client, whose
\* text sets no signal and has at most 80 tokens
LlamadaDelEjemplo ==
    /\ Devuelto17
    /\ HorasDe(archivo_csv.filas, llamada.cliente) = CuatroCuatroSeisOchoDiez
    /\ llamada.cliente # "Intendencia de Rivera"
    /\ \A k \in DOMAIN locales.keywords : locales.keywords[k] = 0
    /\ locales.texto_len <= 80

\* C8 (as claimed): for the records [4, 4, 6, 8, 10] the median is 6 and the spread 2.4;
\* without rule the multiplier is 1.0, horas_centrales 6.0, intervalo_min 3.75,
\* intervalo_max 8.5 and the confidence Alta.
C8_DesvioDosCuatro ==
    LlamadaDelEjemplo =>
        /\ locales.base = Ent(6)
        /\ locales.mae = <<12, 5>>
        /\ locales.multiplicador = Ent(1)
        /\ pred.horas_centrales = Ent(6)
        /\ pred.intervalo_min = <<15, 4>>
        /\ pred.intervalo_max = <<17, 2>>
        /\ pred.confianza = "Alta"

\* C8 (amended): for the records [4, 4, 6, 8, 10] the median is 6 and the spread
\* mean(|x - 6|) is 2.0; without rule the multiplier is 1.0, horas_centrales 6.0,
\* intervalo_min 4.0, intervalo_max 8.0 and the confidence Alta.  In every prediction
\* of Variant A each of horas_centrales, intervalo_min, intervalo_max and
\* base_sin_ajustar is the quarter of an hour nearest to its own unrounded value.
C8_DesvioDos ==
    /\ LlamadaDelEjemplo =>
          /\ locales.base = Ent(6)
          /\ locales.mae = Ent(2)
          /\ locales.multiplicador = Ent(1)
          /\ pred.horas_centrales = Ent(6)
          /\ pred.intervalo_min = Ent(4)
          /\ pred.intervalo_max = Ent(8)
          /\ pred.base_sin_ajustar = Ent(6)
          /\ pred.confianza = "Alta"
    /\ Devuelto17 =>
          /\ CuartoMasCercano(pred.horas_centrales, RMul(locales.base, locales.multiplicador))
          /\ CuartoMasCercano(pred.intervalo_min,
                 Max05(RResta(RMul(locales.base, locales.multiplicador), locales.mae)))
          /\ CuartoMasCercano(pred.intervalo_max,
                 RSum(RMul(locales.base, locales.multiplicador), locales.mae))
          /\ CuartoMasCercano(pred.base_sin_ajustar, locales.base)

\* C8 witness: the call of the example returned 6.0 hours for the summary "ajuste"
C8_EjemploDevuelto ==
    /\ LlamadaDelEjemplo
    /\ llamada.summary = <<"ajuste">>
    /\ pred.horas_centrales = Ent(6)

\* C10: the rationale list of every prediction of Variant A follows one fixed order
\* (special client, tax-withholding, tax-adjustment, leave, mass-run, bonus, text length,
\* withholding+mass-run combo, adjustment+mass-run combo, then the flags spike,
\* no-history, outlier): its entries are entries of that order, in strictly increasing
\* position, so none appears twice and no rule message follows a flag; and the
\* multiplier is the product of the factors of the rule messages present.
C10_OrdenFijo ==
    Devuelto17 =>
        /\ \A i \in 1..Len(pred.factores) : \E j \in 1..Len(OrdenFijo) :
               OrdenFijo[j] = pred.factores[i]
        /\ \A i \in 1..(Len(pred.factores) - 1) :
               Posicion(pred.factores[i]) < Posicion(pred.factores[i + 1])
        /\ locales.multiplicador =
               ProductoAnunciado(SelectSeq(pred.factores, LAMBDA m : m \notin Avisos))

\* C10 witness: a rationale list with rule messages, a combo and two flags after them
C10_ReglasYAvisos ==
    /\ Devuelto17
    /\ Len(pred.factores) >= 6
    /\ pred.factores[Len(pred.factores)] = AvisoOutlier
    /\ pred.factores[Len(pred.factores) - 1] = AvisoSpike
    /\ Veces(pred.factores, "(!!!) Ajuste IRPF + Masivo (+40% adicional)") = 1

\* C3: predecir has no side effect and is idempotent: no call changes an engine (the
\* client statistics table, the global statistics, the keyword table), and a call with
\* the arguments of an earlier call on the same engine returns what the earlier call
\* returned, whichever calls ran in between.
C3_SinEfectosEIdempotente ==
    /\ [][pc = "listo" => /\ estimador_diecisiete' = estimador_diecisiete
                          /\ estimador_diez' = estimador_diez]_vars
    /\ []((pc = "resultado" /\ anterior.hay /\ anterior.llamada = llamada) =>
              anterior.pred = pred)

\* C3 witness: a call returned whose arguments are those of the call the observer kept
C3_LlamadaRepetida ==
    /\ pc = "resultado"
    /\ anterior.hay
    /\ anterior.llamada = llamada
    /\ llamada.producto = "Payroll Diecisiete"
    /\ llamada.summary = <<"IRPF", "masiva">>
    /\ pred.estado = "ok"
    /\ anterior.pred = pred

EsPrefijo(s, t) == Len(s) < Len(t) /\ SubSeq(t, 1, Len(s)) = s

EsSufijo(s, t) == Len(s) < Len(t) /\ SubSeq(t, Len(t) - Len(s) + 1, Len(t)) = s

\* the call that returned has the client and the description of the call the observer
\* kept, on the same engine, and its summary is the kept one with words added; the kept
\* call returned a prediction
TextoAmpliado ==
    /\ pc = "resultado"
    /\ anterior.hay
    /\ anterior.llamada.producto = llamada.producto
    /\ anterior.llamada.cliente = llamada.cliente
    /\ anterior.llamada.description = llamada.description
    /\ \/ EsPrefijo(anterior.llamada.summary, llamada.summary)
       \/ EsSufijo(anterior.llamada.summary, llamada.summary)
    /\ anterior.pred.estado = "ok"

\* the configured keywords that parse as a number and are in the text of the call
EnElTexto(ll) ==
    {i \in 1..Len(estimador_diez.keywords) :
        /\ Float(estimador_diez.keywords[i].factor).exc = ""
        /\ Contiene(Lower(TextoCompleto(ll.summary, ll.description)),
                    Lower(Letras(estimador_diez.keywords[i].keyword)))}

\* the multipliers of the rules that fire on the text of the call that returned and did
\* not fire on the text the observer kept
FactoresNuevos ==
    IF llamada.producto = "Payroll Diecisiete"
    THEN {FactorAnunciado(m) :
            m \in (Range(pred.factores) \ Avisos) \ Range(anterior.pred.factores)}
    ELSE {Float(estimador_diez.keywords[i].factor).val :
            i \in EnElTexto(llamada) \ EnElTexto(anterior.llamada)}

\* C4 (as claimed): with the client and the base text fixed, adding a text span that
\* fires additional keyword rules with multipliers > 0 (also between 0 and 1) never
\* decreases horas_centrales.
C4_MultiplicadorPositivo ==
    (/\ TextoAmpliado
     /\ FactoresNuevos # {}
     /\ \A f \in FactoresNuevos : f = Inf \/ (EsFinito(f) /\ f[1] > 0)) =>
        /\ pred.estado = "ok"
        /\ RMenorIgual(anterior.pred.horas_centrales, pred.horas_centrales)

\* C4 (amended): with the client and the base text fixed, adding a text span that fires
\* additional keyword rules whose multipliers are finite and at least 1 never decreases
\* horas_centrales, provided baseline x multiplier before the addition is not negative.
C4_MultiplicadorAlMenosUno ==
    (/\ TextoAmpliado
     /\ FactoresNuevos # {}
     /\ \A f \in FactoresNuevos : EsFinito(f) /\ RMenorIgual(Ent(1), f)
     /\ RMenorIgual(Ent(0), anterior.locales.pred_central)) =>
        /\ pred.estado = "ok"
        /\ RMenorIgual(anterior.pred.horas_centrales, pred.horas_centrales)

\* C4 witness: on Variant B "masiva" was added to "IRPF" and the estimate grew
C4_MasivaAgregada ==
    /\ TextoAmpliado
    /\ llamada.producto = "Payroll Diez"
    /\ anterior.llamada.summary = <<"IRPF">>
    /\ llamada.summary = <<"IRPF", "masiva">>
    /\ FactoresNuevos = {<<3, 2>>}
    /\ pred.estado = "ok"
    /\ RMenor(anterior.pred.horas_centrales, pred.horas_centrales)

\* C11: the flags of Variant A are decided on the rounded central value: the spike flag
\* is in the rationale list iff horas_centrales > 15, the no-history flag iff the
\* confidence is Baja, the outlier flag iff horas_centrales >= 16 (80% of the threshold
\* 20); and the four numbers returned are the quarters of an hour nearest to the
\* unrounded values of the call, whichever flags are appended.
C11_AvisosSobreElRedondeo ==
    Devuelto17 =>
        /\ (AvisoSpike \in Range(pred.factores)) = RMenor(Ent(15), pred.horas_centrales)
        /\ (AvisoSinHistorial \in Range(pred.factores)) = (pred.confianza = "Baja")
        /\ (AvisoOutlier \in Range(pred.factores)) =
               RMenorIgual(RMul(estimador_diecisiete.outlier_threshold, <<4, 5>>),
                           pred.horas_centrales)
        /\ RMul(estimador_diecisiete.outlier_threshold, <<4, 5>>) = Ent(16)
        /\ CuartoMasCercano(pred.horas_centrales, locales.pred_central)
        /\ CuartoMasCercano(pred.intervalo_min, locales.pred_min)
        /\ CuartoMasCercano(pred.intervalo_max, locales.pred_max)
        /\ CuartoMasCercano(pred.base_sin_ajustar, locales.base)

\* C11 witness: a call whose unrounded estimate is on the other side of 15 than the
\* rounded one, with the spike flag as the rounded value has it and no outlier flag
C11_RedondeoDecide ==
    /\ Devuelto17
    /\ RMenor(Ent(15), pred.horas_centrales) # RMenor(Ent(15), locales.pred_central)
    /\ (AvisoSpike \in Range(pred.factores)) = RMenor(Ent(15), pred.horas_centrales)
    /\ AvisoOutlier \notin Range(pred.factores)

AvisoSinHistorial10 == Etiqueta(<<"Cliente sin historial - rango amplio">>, 0)

\* the labels that name the High and Medium tiers, in the letter cases of the configurations
EsAltaOMedia(label) == label \in {"Alta", "ALTA", "alta", "Media", "MEDIA", "media"}

\* the entry of the client of the call in the configuration file, {} when there is none
EntradaDelCliente ==
    IF "clientes" \in DOMAIN archivo_json.config
       /\ llamada.cliente \in DOMAIN archivo_json.config.clientes
    THEN archivo_json.config.clientes[llamada.cliente]
    ELSE DictVacio

\* the advisory is the last entry of the rationale list
AvisoAlFinal ==
    /\ pred.factores # <<>>
    /\ pred.factores[Len(pred.factores)] = AvisoSinHistorial10

\* the entries of the rationale list before position n are labels of configured keywords
SoloKeywordsAntesDe(n) ==
    \A i \in 1..(n - 1) :
        \E k \in 1..Len(estimador_diez.keywords) :
            pred.factores[i].nombre = Title(Letras(estimador_diez.keywords[k].keyword))

\* C12: Variant B trusts the stored confidence label.  For a client with an entry in
\* the configuration the returned confianza is the label the entry stores, and the
\* no-history advisory is the last entry of the rationale list exactly when that label
\* names neither the High nor the Medium tier (Alta / Media); for a client without an
\* entry the global median and spread are used, confianza is Baja and the advisory is
\* the last entry.  Every other entry of the rationale list is the label of a keyword.
C12_EtiquetaGuardada ==
    (Devuelto10 /\ pred.estado = "ok") =>
        \A entrada \in {EntradaDelCliente} :
            /\ ("conf" \in DOMAIN entrada) =>
                   /\ pred.confianza = entrada.conf
                   /\ AvisoAlFinal = ~EsAltaOMedia(entrada.conf)
            /\ (llamada.cliente \notin DOMAIN estimador_diez.clientes) =>
                   /\ locales.base = estimador_diez.global_mediana
                   /\ locales.mae = estimador_diez.global_mad
                   /\ pred.confianza = "Baja"
                   /\ AvisoAlFinal
            /\ SoloKeywordsAntesDe(IF AvisoAlFinal THEN Len(pred.factores)
                                   ELSE Len(pred.factores) + 1)

\* C12 witness: a client whose stored label is "Sin datos" got that label back, with a
\* keyword label and then the advisory in the rationale list
C12_EtiquetaDesconocida ==
    /\ Devuelto10
    /\ pred.estado = "ok"
    /\ llamada.cliente = "Acme"
    /\ pred.confianza = "Sin datos"
    /\ Len(pred.factores) = 2
    /\ AvisoAlFinal

MuyExtensa == "Descripcion muy extensa (+20%)"

Extensa == "Descripcion extensa (+10%)"

\* the whitespace-delimited tokens of summary + " " + description: every word of the
\* summary and of the description is one token, and so is every filler token
TokensDeLaLlamada ==
    Len(llamada.summary) + Len(llamada.description.palabras) + llamada.description.relleno

\* the product of the factors of the rule messages other than the two length messages
ProductoSinLargo ==
    ProductoAnunciado(SelectSeq(pred.factores,
                                LAMBDA m : m \notin Avisos \cup {MuyExtensa, Extensa}))

\* C13: the text-length rule of Variant A is a ladder of two exclusive steps on the
\* token count of summary + " " + description: more than 150 tokens apply x1.20 only,
\* more than 80 and at most 150 apply x1.10 only, at most 80 apply neither (80 none,
\* 81 x1.10, 150 x1.10, 151 x1.20); the two length factors are never applied together.
C13_EscaleraDeLargo ==
    Devuelto17 =>
        \A n \in {TokensDeLaLlamada} :
            /\ locales.texto_len = n
            /\ Veces(pred.factores, MuyExtensa) = (IF n > 150 THEN 1 ELSE 0)
            /\ Veces(pred.factores, Extensa) = (IF n > 80 /\ n <= 150 THEN 1 ELSE 0)
            /\ locales.multiplicador =
                   RMul(ProductoSinLargo,
                        IF n > 150 THEN <<6, 5>>
                        ELSE IF n > 80 THEN <<11, 10>> ELSE <<1, 1>>)

\* C13 witness: a call with exactly 151 tokens returned with the x1.20 entry alone
C13_CientoCincuentaYUno ==
    /\ Devuelto17
    /\ TokensDeLaLlamada = 151
    /\ Veces(pred.factores, MuyExtensa) = 1
    /\ Veces(pred.factores, Extensa) = 0

====
